---- MODULE Spec2Model ----
(***************************************************************************)
(* Template resolution (getTemplateData / TemplateData.getTemplates) and   *)
(* createFunction of the Azure Functions extension.                        *)
(*                                                                         *)
(* A template id is kept in the form id.split('-') gives: the sequence of  *)
(* its '-'-separated segments ('HttpTrigger-JavaScript' is                 *)
(* <<"HttpTrigger", "JavaScript">>, and a C# id, which holds no '-', is a  *)
(* sequence of one segment).  An array is a sequence.                      *)
(***************************************************************************)
EXTENDS Integers, Sequences, FiniteSets, TLC

\* JavaScript's undefined, where a string is expected.
None == "undefined"

\* An optional object or array: Undefined, or Some(x).
Undefined == <<>>
Some(x) == <<x>>

----------------------------------------------------------------------------
(* Constants of the program *)

ProjectRuntimeOne == "~1"
ProjectRuntimeBeta == "beta"
\* Object.keys(ProjectRuntime) mapped to the values, in declaration order.
ProjectRuntime == <<ProjectRuntimeOne, ProjectRuntimeBeta>>
Runtimes == {ProjectRuntimeOne, ProjectRuntimeBeta}

LanguageJava == "Java"
LanguageJavaScript == "JavaScript"
LanguageCSharp == "C#"

FilterAll == "All"
FilterCore == "Core"
FilterVerified == "Verified"

CategoryCore == "$temp_category_core"
CategoryApi == "$temp_category_api"

templatesKey == "FunctionTemplates"
configKey == "FunctionTemplateConfig"
resourcesKey == "FunctionTemplateResources"
dotnetTemplatesKey == "DotnetTemplates"
templateVersionKey == "templateVersion"

v1ReleaseVersion == "v1ReleaseVersion"
betaReleaseVersion == "betaReleaseVersion"

JS(name) == <<name, "JavaScript">>

verifiedV1Templates ==
    << JS("BlobTrigger"), JS("GenericWebHook"), JS("GitHubWebHook"), JS("HttpTrigger"),
       JS("HttpTriggerWithParameters"), JS("ManualTrigger"), JS("QueueTrigger"),
       JS("TimerTrigger"),
       <<"Azure.Function.CSharp.HttpTrigger.1.x">>,
       <<"Azure.Function.CSharp.BlobTrigger.1.x">>,
       <<"Azure.Function.CSharp.QueueTrigger.1.x">>,
       <<"Azure.Function.CSharp.TimerTrigger.1.x">> >>

verifiedV2Templates ==
    << JS("BlobTrigger"), JS("HttpTrigger"), JS("QueueTrigger"), JS("TimerTrigger"),
       <<"Azure.Function.CSharp.HttpTrigger.2.x">>,
       <<"Azure.Function.CSharp.BlobTrigger.2.x">>,
       <<"Azure.Function.CSharp.QueueTrigger.2.x">>,
       <<"Azure.Function.CSharp.TimerTrigger.2.x">> >>

verifiedJavaTemplates == <<"HttpTrigger", "BlobTrigger", "QueueTrigger", "TimerTrigger">>

----------------------------------------------------------------------------
(* Helpers for arrays and strings *)

Range(s) == {s[i] : i \in 1..Len(s)}

\* String.prototype.toLowerCase on the strings the model uses.
toLowerCase(s) ==
    CASE s = "JavaScript" -> "javascript"
      [] s = "Java" -> "java"
      [] s = "C#" -> "c#"
      [] s = "TypeScript" -> "typescript"
      [] s = "AccessRights" -> "accessrights"
      [] s = "accessRights" -> "accessrights"
      [] s = "Connection" -> "connection"
      [] s = "Path" -> "path"
      [] s = "Schedule" -> "schedule"
      [] OTHER -> s

\* The strings of the model that contain 'CSharp'.
CSharpStrings ==
    { "Azure.Function.CSharp.HttpTrigger.1.x", "Azure.Function.CSharp.BlobTrigger.1.x",
      "Azure.Function.CSharp.QueueTrigger.1.x", "Azure.Function.CSharp.TimerTrigger.1.x",
      "Azure.Function.CSharp.HttpTrigger.2.x", "Azure.Function.CSharp.BlobTrigger.2.x",
      "Azure.Function.CSharp.QueueTrigger.2.x", "Azure.Function.CSharp.TimerTrigger.2.x",
      "Azure.Function.CSharp.EventHubTrigger.1.x", "Azure.Function.CSharp.EventHubTrigger.2.x" }

\* id.includes('CSharp') on an id kept as its segments.
includesCSharp(id) == \E i \in 1..Len(id) : id[i] \in CSharpStrings

\* Mutant: the runtimes share the keys of runtime one.
getRuntimeKeyShared(baseKey, runtime) == baseKey

getRuntimeKey(baseKey, runtime) ==
    IF runtime = ProjectRuntimeOne THEN baseKey ELSE baseKey \o "." \o runtime

versionKey(runtime) == templateVersionKey \o "-" \o runtime

\* Mutant: the id is cut at its last '-' and the tail is kept.
removeLanguageFromIdTail(id) == id[Len(id)]

\* id.split('-')[0]
removeLanguageFromId(id) == id[1]

----------------------------------------------------------------------------
(* The feed and the releases it offers (external data) *)

\* Results of operations that may throw.
Ok(v) == [ok |-> TRUE, value |-> v, error |-> None]
Err(m) == [ok |-> FALSE, value |-> <<>>, error |-> m]

Template(id, language, categories, settings) ==
    [id |-> id, language |-> language, categories |-> categories,
     userPromptedSettings |-> settings]

ScriptTemplate(name, categories, settings) ==
    Template(JS(name), LanguageJavaScript, categories, settings)

DotnetTemplate(name, version, settings) ==
    Template(<<"Azure.Function.CSharp." \o name \o "." \o version>>, LanguageCSharp,
             {CategoryCore}, settings)

\* templates.json of a v1 release: the script templates of the portal.
V1ScriptTemplates ==
    << ScriptTemplate("BlobTrigger", {CategoryCore}, <<"Connection", "Path">>),
       ScriptTemplate("GenericWebHook", {CategoryApi}, <<>>),
       ScriptTemplate("GitHubWebHook", {CategoryApi}, <<>>),
       ScriptTemplate("HttpTrigger", {CategoryCore, CategoryApi}, <<"AccessRights">>),
       ScriptTemplate("HttpTriggerWithParameters", {CategoryApi}, <<"AccessRights">>),
       ScriptTemplate("ManualTrigger", {CategoryCore}, <<>>),
       ScriptTemplate("QueueTrigger", {CategoryCore}, <<"Connection">>),
       ScriptTemplate("TimerTrigger", {CategoryCore}, <<"Schedule">>),
       ScriptTemplate("EventHubTrigger", {CategoryCore}, <<"Connection">>),
       Template(<<"HttpTrigger", "TypeScript">>, "TypeScript", {CategoryCore}, <<"AccessRights">>) >>

V2ScriptTemplates ==
    << ScriptTemplate("BlobTrigger", {CategoryCore}, <<"Connection", "Path">>),
       ScriptTemplate("HttpTrigger", {CategoryCore, CategoryApi}, <<"AccessRights">>),
       ScriptTemplate("QueueTrigger", {CategoryCore}, <<"Connection">>),
       ScriptTemplate("TimerTrigger", {CategoryCore}, <<"Schedule">>),
       ScriptTemplate("EventHubTrigger", {CategoryCore}, <<"Connection">>),
       Template(<<"HttpTrigger", "TypeScript">>, "TypeScript", {CategoryCore}, <<"AccessRights">>) >>

\* What 'dotnet new --list' gives once the item templates of a release are installed.
DotnetTemplatesOf(version) ==
    << DotnetTemplate("HttpTrigger", version, <<"AccessRights">>),
       DotnetTemplate("BlobTrigger", version, <<"Connection", "Path">>),
       DotnetTemplate("QueueTrigger", version, <<"Connection">>),
       DotnetTemplate("TimerTrigger", version, <<"Schedule">>),
       DotnetTemplate("EventHubTrigger", version, <<"Connection">>) >>

Releases == {"1.0.0", "1.0.1", "2.0.0", "2.0.1", v1ReleaseVersion, betaReleaseVersion}

\* Releases of the v1 runtime; the others are releases of the v2 runtime.
V1Releases == {"1.0.0", "1.0.1", v1ReleaseVersion}

\* A release published without one of the verified templates.
BrokenRelease == "2.0.1"

ReleaseScriptTemplates(release) ==
    IF release \in V1Releases THEN V1ScriptTemplates
    ELSE IF release = BrokenRelease
         THEN SelectSeq(V2ScriptTemplates, LAMBDA t : t.id # JS("TimerTrigger"))
         ELSE V2ScriptTemplates

ReleaseDotnetTemplates(release) ==
    IF release \in V1Releases THEN DotnetTemplatesOf("1.x") ELSE DotnetTemplatesOf("2.x")

\* The cli feed: tags give the latest release of each feed runtime, releases
\* are the versions that can be downloaded.
FeedA ==
    [tags |-> [v1 |-> "1.0.0", v2 |-> "2.0.0"],
     releases |-> {"1.0.0", "2.0.0", v1ReleaseVersion, betaReleaseVersion}]

FeedB ==
    [tags |-> [v1 |-> "1.0.1", v2 |-> "2.0.1"],
     releases |-> {"1.0.1", "2.0.1", betaReleaseVersion}]

Feeds == {FeedA, FeedB}

getFeedRuntime(runtime) == IF runtime = ProjectRuntimeOne THEN "v1" ELSE "v2"

----------------------------------------------------------------------------
(* Raw (unparsed) data: what an archive holds and what the cache stores *)

\* A raw JSON document: the release it was downloaded from and the file it is.
\* A document that the parsers cannot read has file "corrupt".
Raw(release, file) == [release |-> release, file |-> file, listed |-> TRUE]

\* rawCSharpTemplates: the list is empty when the .NET CLI is not installed.
RawDotnet(release, listed) == [release |-> release, file |-> "dotnet", listed |-> listed]

parseScriptTemplates(rawResources, rawTemplates, rawConfig) ==
    IF rawResources.file = "Resources.json" /\ rawTemplates.file = "templates.json"
       /\ rawConfig.file = "bindings.json"
    THEN Ok(ReleaseScriptTemplates(rawTemplates.release))
    ELSE Err("parse error")

parseDotnetTemplates(rawCSharpTemplates, runtime) ==
    IF rawCSharpTemplates.file = "dotnet"
    THEN Ok(IF rawCSharpTemplates.listed
            THEN ReleaseDotnetTemplates(rawCSharpTemplates.release) ELSE <<>>)
    ELSE Err("parse error")

----------------------------------------------------------------------------
(* TemplateData.getTemplates *)

noInternetErrMsg == "There was an error in retrieving the templates."

verifiedTemplatesOf(runtime) ==
    IF runtime = ProjectRuntimeOne THEN verifiedV1Templates ELSE verifiedV2Templates

\* The branch for Java: the JavaScript templates with a verified Java name.
getJavaTemplates(templates) ==
    LET javaTemplates == SelectSeq(templates, LAMBDA t : t.language = LanguageJavaScript)
    IN  SelectSeq(javaTemplates,
            LAMBDA t : \E i \in 1..Len(verifiedJavaTemplates) :
                           verifiedJavaTemplates[i] = removeLanguageFromId(t.id))

\* The branch for the other languages: the switch on templateFilter.
applyTemplateFilter(filterTemplates, runtime, templateFilter) ==
    CASE templateFilter = FilterAll -> filterTemplates
      [] templateFilter = FilterCore ->
             SelectSeq(filterTemplates, LAMBDA t : \E c \in t.categories : c = CategoryCore)
      [] OTHER ->
             LET verifiedTemplates == verifiedTemplatesOf(runtime)
             IN  SelectSeq(filterTemplates,
                     LAMBDA t : \E i \in 1..Len(verifiedTemplates) : verifiedTemplates[i] = t.id)

\* Mutant: the languages are compared as they are written.
matchesLanguageExact(t, language) == t.language = language

\* t.language.toLowerCase() === language.toLowerCase()
matchesLanguage(t, language) == toLowerCase(t.language) = toLowerCase(language)

\* runtimeArg and templateFilter are None when the argument is omitted.
getTemplates(templatesMap, language, runtimeArg, templateFilter) ==
    LET runtime == IF runtimeArg = None THEN ProjectRuntimeOne ELSE runtimeArg
        entry == templatesMap[runtime]
        templates == entry[1]
    IN  IF entry = Undefined
        THEN Err(noInternetErrMsg)
        ELSE IF language = LanguageJava
             THEN Ok(getJavaTemplates(templates))
             ELSE Ok(applyTemplateFilter(
                         SelectSeq(templates, LAMBDA t : matchesLanguage(t, language)),
                         runtime, templateFilter))

----------------------------------------------------------------------------
(* verifyTemplatesByRuntime *)

\* Mutant: nothing is verified.
idsToVerifyNone(runtime, dotnetOk) == <<>>

\* The ids that are verified: without the .NET CLI the CSharp ids are dropped.
idsToVerify(runtime, dotnetOk) ==
    IF dotnetOk THEN verifiedTemplatesOf(runtime)
    ELSE SelectSeq(verifiedTemplatesOf(runtime), LAMBDA id : ~includesCSharp(id))

verifyTemplatesByRuntime(templates, runtime, dotnetOk) ==
    LET ids == idsToVerify(runtime, dotnetOk)
        missing == {i \in 1..Len(ids) : ~\E j \in 1..Len(templates) : templates[j].id = ids[i]}
    IN  IF missing = {} THEN Ok(<<>>)
        ELSE Err("Failed to find verified template")

----------------------------------------------------------------------------
(* State *)

VARIABLES
    globalState,             \* the Memento: cache key -> Some(value) or Undefined
    templateVersionSetting,  \* the user setting azureFunctions.templateVersion
    templateData,            \* the map of the TemplateData the last call returned; Undefined while a call is pending
    pc,                      \* position of the getTemplateData call in progress
    gsPassed,                \* whether the call was given a globalState
    dotnetInstalled,         \* whether validateDotnetInstalled succeeds during the call
    cliFeedJson,             \* result of tryGetCliFeedJson: a feed, or None
    idx,                     \* index into Object.keys(ProjectRuntime)
    templateVersion,         \* local of the callback
    parsedTemplatesByRuntime,\* local of the callback
    templatesMap,            \* local of getTemplateData
    download,                \* the feed attempt in progress, or None
    tempPath,                \* the temporary directory: None or the runtime whose files it holds
    attempts,                \* history: the sources attempted in the call, in order
    callbackError,           \* history: runtimes whose callback ended with an error
    downloaded,              \* history: runtimes that some call wrote to the cache
    lastGet,                 \* the last getTemplates call and its result, or None
    cf,                      \* the last createFunction call and its result, or None
    install                  \* the installFuncCoreTools call and its position, or Undefined

vars == << globalState, templateVersionSetting, templateData, pc, gsPassed, dotnetInstalled,
           cliFeedJson, idx, templateVersion, parsedTemplatesByRuntime, templatesMap,
           download, tempPath, attempts, callbackError, downloaded, lastGet, cf, install >>

BaseKeys == {templatesKey, configKey, resourcesKey, dotnetTemplatesKey}

CacheKeys ==
    {getRuntimeKey(k, r) : k \in BaseKeys, r \in Runtimes} \cup {versionKey(r) : r \in Runtimes}

EmptyGlobalState == [k \in CacheKeys |-> Undefined]

\* A Memento left by an earlier version of the extension: the entries of
\* runtime one are in a format the parsers no longer read.
LegacyGlobalState ==
    [k \in CacheKeys |->
        IF k = versionKey(ProjectRuntimeOne) THEN Some("0.9.0")
        ELSE IF k \in {getRuntimeKey(b, ProjectRuntimeOne) : b \in {templatesKey, configKey, resourcesKey}}
             THEN Some(Raw("0.9.0", "corrupt"))
             ELSE Undefined]

EmptyTemplatesMap == [r \in Runtimes |-> Undefined]

\* const runtime = ProjectRuntime[key]
currentRuntime == ProjectRuntime[idx]

----------------------------------------------------------------------------
(* tryGetParsedTemplateDataFromCache *)

\* The body of the try block: the templates parsed from the cache, or the error.
parseCache(gs, rt) ==
    LET cachedResources == gs[getRuntimeKey(resourcesKey, rt)]
        cachedTemplates == gs[getRuntimeKey(templatesKey, rt)]
        cachedConfig == gs[getRuntimeKey(configKey, rt)]
        cachedDotnetTemplates == gs[getRuntimeKey(dotnetTemplatesKey, rt)]
        script == IF cachedResources # Undefined /\ cachedTemplates # Undefined
                     /\ cachedConfig # Undefined
                  THEN parseScriptTemplates(cachedResources[1], cachedTemplates[1], cachedConfig[1])
                  ELSE Ok(<<>>)
        dotnet == IF cachedDotnetTemplates # Undefined
                  THEN parseDotnetTemplates(cachedDotnetTemplates[1], rt)
                  ELSE Ok(<<>>)
    IN  IF ~script.ok THEN script
        ELSE IF ~dotnet.ok THEN dotnet
        ELSE Ok(script.value \o dotnet.value)

\* The function: the templates built in the try block are dropped and
\* undefined is returned on every path (line 290).
tryGetParsedTemplateDataFromCache(gs, rt) ==
    LET templates == parseCache(gs, rt)
    IN  [value |-> Undefined, cacheError |-> templates.error]

----------------------------------------------------------------------------
(* tryGetParsedTemplateDataFromCliFeed *)

\* What the download, extraction and reading of a release can give.
DownloadOutcomes == {"ok", "downloadError", "unreadableJson"}

\* The try block up to the readJSON calls, for the outcome the environment
\* chose: cliFeedJson.releases[templateVersion] throws a TypeError for a
\* version the feed does not list.
startDownload(feed, version, outcome) ==
    IF version \notin feed.releases
    THEN [release |-> version, outcome |-> "typeError"]
    ELSE [release |-> version, outcome |-> outcome]

\* The rest of the try block: parse, verify; the templates and the raw
\* documents to cache, or the error.
parseDownload(d, rt, dotnetOk) ==
    IF d.outcome # "ok" THEN Err(d.outcome)
    ELSE LET rawResources == Raw(d.release, "Resources.json")
             rawTemplates == Raw(d.release, "templates.json")
             rawConfig == Raw(d.release, "bindings.json")
             rawCSharpTemplates == RawDotnet(d.release, dotnetOk)
             script == parseScriptTemplates(rawResources, rawTemplates, rawConfig)
             dotnet == parseDotnetTemplates(rawCSharpTemplates, rt)
             templates == script.value \o dotnet.value
             verified == verifyTemplatesByRuntime(templates, rt, dotnetOk)
         IN  IF ~verified.ok THEN Err(verified.error)
             ELSE Ok([templates |-> templates, rawTemplates |-> rawTemplates,
                      rawConfig |-> rawConfig, rawResources |-> rawResources,
                      rawCSharpTemplates |-> rawCSharpTemplates])

\* The five globalState.update calls.
updateCache(gs, rt, version, r) ==
    [gs EXCEPT ![versionKey(rt)] = Some(version),
               ![getRuntimeKey(templatesKey, rt)] = Some(r.rawTemplates),
               ![getRuntimeKey(configKey, rt)] = Some(r.rawConfig),
               ![getRuntimeKey(resourcesKey, rt)] = Some(r.rawResources),
               ![getRuntimeKey(dotnetTemplatesKey, rt)] = Some(r.rawCSharpTemplates)]

\* Mutant: the cache is written as soon as the files are read, before the
\* templates are verified.
tryGetParsedTemplateDataFromCliFeedCacheFirst(d, rt, dotnetOk, gs, hasGlobalState) ==
    LET r == parseDownload(d, rt, dotnetOk)
        raw == [rawTemplates |-> Raw(d.release, "templates.json"),
                rawConfig |-> Raw(d.release, "bindings.json"),
                rawResources |-> Raw(d.release, "Resources.json"),
                rawCSharpTemplates |-> RawDotnet(d.release, dotnetOk)]
    IN  [value |-> IF r.ok THEN Some(r.value.templates) ELSE Undefined,
         globalState |-> IF hasGlobalState /\ d.outcome = "ok"
                         THEN updateCache(gs, rt, d.release, raw) ELSE gs]

\* The function's result and the globalState it leaves.
tryGetParsedTemplateDataFromCliFeed(d, rt, dotnetOk, gs, hasGlobalState) ==
    LET r == parseDownload(d, rt, dotnetOk)
    IN  IF r.ok
        THEN [value |-> Some(r.value.templates),
              globalState |-> IF hasGlobalState THEN updateCache(gs, rt, d.release, r.value) ELSE gs]
        ELSE [value |-> Undefined, globalState |-> gs]

----------------------------------------------------------------------------
(* tryGetTemplateVersionSetting *)

\* What the user does with the 'Failed to retrieve ... version' warning.
WarningAnswers == {"selectVersion", "useLatest", "cancel"}

\* The version to use and the user setting left behind.  answer is the
\* user's answer to the warning, pick the release chosen in the quick pick
\* (None when the quick pick is cancelled); both are read only where the
\* code prompts.  A cancelled prompt throws, and the catch gives undefined.
tryGetTemplateVersionSetting(feedOpt, rt, userTemplateVersion, answer, pick) ==
    IF feedOpt = Undefined
    THEN [templateVersion |-> None, setting |-> userTemplateVersion]
    ELSE LET feed == feedOpt[1]
             latest == feed.tags[getFeedRuntime(rt)]
             wanted == IF userTemplateVersion # "" THEN userTemplateVersion ELSE latest
         IN  IF wanted \in feed.releases
             THEN [templateVersion |-> wanted, setting |-> userTemplateVersion]
             ELSE CASE answer = "cancel" ->
                           [templateVersion |-> None, setting |-> userTemplateVersion]
                    [] answer = "selectVersion" ->
                           IF pick = None
                           THEN [templateVersion |-> None, setting |-> userTemplateVersion]
                           ELSE [templateVersion |-> pick, setting |-> pick]
                    [] OTHER -> [templateVersion |-> latest, setting |-> ""]

----------------------------------------------------------------------------
(* getTemplateData, one action per await of the loop body *)

\* globalState.get(`${templateVersionKey}-${runtime}`) === templateVersion
cacheMatches(gs, rt, version) ==
    IF gs[versionKey(rt)] = Undefined THEN version = None ELSE gs[versionKey(rt)][1] = version

\* The conditions of the four steps.
useMatchingCache(hasGlobalState, gs, rt, version) ==
    hasGlobalState /\ cacheMatches(gs, rt, version)

useCliFeed(parsed, feedOpt, version) ==
    parsed = Undefined /\ feedOpt # Undefined /\ version # None

useMismatchCache(parsed, hasGlobalState) ==
    parsed = Undefined /\ hasGlobalState

\* Mutant: the backup download no longer looks at the earlier steps' result.
useBackupCliFeedAlways(parsed, feedOpt) == feedOpt # Undefined

useBackupCliFeed(parsed, feedOpt) ==
    parsed = Undefined /\ feedOpt # Undefined

backupVersion(rt) == IF rt = ProjectRuntimeOne THEN v1ReleaseVersion ELSE betaReleaseVersion

Attempt(rt, source, value) == [runtime |-> rt, source |-> source, templates |-> value]

\* Where the loop goes after the callback of runtime number i has ended.
nextPc(i) == IF i < Len(ProjectRuntime) THEN "version" ELSE "return"

\* Mutant: the error of a callback leaves getTemplateData.
callbackErrorRethrown(i) == "thrown"

\* callWithTelemetryAndErrorHandling: an error thrown by the callback is
\* recorded and not rethrown, so the loop goes on.
callbackErrorPc(i) == nextPc(i)

StartGetTemplateData(hasGlobalState, feedOpt, dotnetOk) ==
    /\ pc = "idle"
    /\ pc' = "version"
    /\ gsPassed' = hasGlobalState
    /\ cliFeedJson' = feedOpt
    /\ dotnetInstalled' = dotnetOk
    /\ idx' = 1
    /\ templatesMap' = EmptyTemplatesMap
    /\ templateVersion' = None
    /\ parsedTemplatesByRuntime' = Undefined
    /\ download' = Undefined
    /\ attempts' = <<>>
    /\ callbackError' = {}
    /\ templateData' = Undefined
    /\ lastGet' = Undefined
    /\ UNCHANGED <<globalState, templateVersionSetting, tempPath, downloaded, cf, install>>

TryGetTemplateVersionSetting(answer, pick) ==
    /\ pc = "version"
    /\ LET r == tryGetTemplateVersionSetting(cliFeedJson, currentRuntime,
                                             templateVersionSetting, answer, pick)
       IN  /\ templateVersion' = r.templateVersion
           /\ templateVersionSetting' = r.setting
    /\ parsedTemplatesByRuntime' = Undefined
    /\ pc' = "matchingCache"
    /\ UNCHANGED <<globalState, templateData, gsPassed, dotnetInstalled, cliFeedJson, idx,
                   templatesMap, download, tempPath, attempts, callbackError, downloaded,
                   lastGet, cf, install>>

\* 1. Use the cached templates if they match templateVersion
MatchingCache ==
    /\ pc = "matchingCache"
    /\ IF useMatchingCache(gsPassed, globalState, currentRuntime, templateVersion)
       THEN LET r == tryGetParsedTemplateDataFromCache(globalState, currentRuntime)
            IN  /\ parsedTemplatesByRuntime' = r.value
                /\ attempts' = Append(attempts, Attempt(currentRuntime, "matchingCache", r.value))
       ELSE UNCHANGED <<parsedTemplatesByRuntime, attempts>>
    /\ pc' = "cliFeed"
    /\ UNCHANGED <<globalState, templateVersionSetting, templateData, gsPassed, dotnetInstalled,
                   cliFeedJson, idx, templateVersion, templatesMap, download, tempPath,
                   callbackError, downloaded, lastGet, cf, install>>

\* The download of a feed attempt: the files of the release are put in tempPath.
FeedStart(version, outcome, downloadedPc) ==
    LET d == startDownload(cliFeedJson[1], version, outcome)
    IN  /\ download' = Some(d)
        /\ tempPath' = IF d.outcome = "typeError" THEN tempPath ELSE currentRuntime
        /\ pc' = downloadedPc
        /\ UNCHANGED <<globalState, templateVersionSetting, templateData, gsPassed,
                       dotnetInstalled, cliFeedJson, idx, templateVersion,
                       parsedTemplatesByRuntime, templatesMap, attempts, callbackError,
                       downloaded, lastGet, cf, install>>

SkipStep(toPc) ==
    /\ pc' = toPc
    /\ UNCHANGED <<globalState, templateVersionSetting, templateData, gsPassed,
                   dotnetInstalled, cliFeedJson, idx, templateVersion,
                   parsedTemplatesByRuntime, templatesMap, download, tempPath, attempts,
                   callbackError, downloaded, lastGet, cf, install>>

\* Mutant: the finally block leaves the directory.
removeTempPathSkipped(path, removeFails) == path

\* The finally block: the directory, when it exists, is removed; it stays
\* when the removal fails.
removeTempPath(path, removeFails) ==
    IF path # None /\ removeFails THEN path ELSE None

\* The rest of a feed attempt: parse, verify, write the cache, and in the
\* finally block remove tempPath.  A removal that fails throws out of the
\* callback.
FeedFinish(source, removeFails, toPc) ==
    LET r == tryGetParsedTemplateDataFromCliFeed(download[1], currentRuntime, dotnetInstalled,
                                                 globalState, gsPassed)
    IN  /\ globalState' = r.globalState
        /\ downloaded' = IF r.value # Undefined /\ gsPassed
                         THEN downloaded \cup {currentRuntime} ELSE downloaded
        /\ download' = Undefined
        /\ IF tempPath # None /\ removeFails
           THEN /\ attempts' = Append(attempts, Attempt(currentRuntime, source, Undefined))
                /\ callbackError' = callbackError \cup {currentRuntime}
                /\ parsedTemplatesByRuntime' = Undefined
                /\ tempPath' = removeTempPath(tempPath, removeFails)
                /\ pc' = callbackErrorPc(idx)
                /\ idx' = IF idx < Len(ProjectRuntime) THEN idx + 1 ELSE idx
           ELSE /\ attempts' = Append(attempts, Attempt(currentRuntime, source, r.value))
                /\ callbackError' = callbackError
                /\ parsedTemplatesByRuntime' = r.value
                /\ tempPath' = removeTempPath(tempPath, removeFails)
                /\ pc' = toPc
                /\ idx' = idx
        /\ UNCHANGED <<templateVersionSetting, templateData, gsPassed, dotnetInstalled,
                       cliFeedJson, templateVersion, templatesMap, lastGet, cf, install>>

\* 2. Download templates from the cli-feed if the cache doesn't match templateVersion
CliFeedStart(outcome) ==
    /\ pc = "cliFeed"
    /\ IF useCliFeed(parsedTemplatesByRuntime, cliFeedJson, templateVersion)
       THEN FeedStart(templateVersion, outcome, "cliFeedDownloaded")
       ELSE SkipStep("mismatchCache")

CliFeedFinish(removeFails) ==
    /\ pc = "cliFeedDownloaded"
    /\ FeedFinish("cliFeed", removeFails, "mismatchCache")

\* 3. Use the cached templates, even if they don't match templateVersion
MismatchCache ==
    /\ pc = "mismatchCache"
    /\ IF useMismatchCache(parsedTemplatesByRuntime, gsPassed)
       THEN LET r == tryGetParsedTemplateDataFromCache(globalState, currentRuntime)
            IN  /\ parsedTemplatesByRuntime' = r.value
                /\ attempts' = Append(attempts, Attempt(currentRuntime, "mismatchCache", r.value))
       ELSE UNCHANGED <<parsedTemplatesByRuntime, attempts>>
    /\ pc' = "backupCliFeed"
    /\ UNCHANGED <<globalState, templateVersionSetting, templateData, gsPassed, dotnetInstalled,
                   cliFeedJson, idx, templateVersion, templatesMap, download, tempPath,
                   callbackError, downloaded, lastGet, cf, install>>

\* 4. Download templates from the cli-feed using the backupVersion
BackupCliFeedStart(outcome) ==
    /\ pc = "backupCliFeed"
    /\ IF useBackupCliFeed(parsedTemplatesByRuntime, cliFeedJson)
       THEN FeedStart(backupVersion(currentRuntime), outcome, "backupCliFeedDownloaded")
       ELSE SkipStep("store")

BackupCliFeedFinish(removeFails) ==
    /\ pc = "backupCliFeedDownloaded"
    /\ FeedFinish("backupCliFeed", removeFails, "store")

\* Mutant: a runtime without templates gets an empty list.
storeTemplatesAlways(map, rt, parsed) ==
    [map EXCEPT ![rt] = IF parsed # Undefined THEN parsed ELSE Some(<<>>)]

\* templatesMap[runtime] = parsedTemplatesByRuntime, when there are any.
storeTemplates(map, rt, parsed) ==
    IF parsed # Undefined THEN [map EXCEPT ![rt] = parsed] ELSE map

Store ==
    /\ pc = "store"
    /\ templatesMap' = storeTemplates(templatesMap, currentRuntime, parsedTemplatesByRuntime)
    /\ pc' = nextPc(idx)
    /\ idx' = IF idx < Len(ProjectRuntime) THEN idx + 1 ELSE idx
    /\ UNCHANGED <<globalState, templateVersionSetting, templateData, gsPassed, dotnetInstalled,
                   cliFeedJson, templateVersion, parsedTemplatesByRuntime, download, tempPath,
                   attempts, callbackError, downloaded, lastGet, cf, install>>

\* return new TemplateData(templatesMap)
Return ==
    /\ pc = "return"
    /\ templateData' = Some(templatesMap)
    /\ pc' = "idle"
    /\ UNCHANGED <<globalState, templateVersionSetting, gsPassed, dotnetInstalled, cliFeedJson,
                   idx, templateVersion, parsedTemplatesByRuntime, templatesMap, download,
                   tempPath, attempts, callbackError, downloaded, lastGet, cf, install>>

----------------------------------------------------------------------------
(* Calls of TemplateData.getTemplates on ext.templateData *)

LanguageInputs == {LanguageJavaScript, "javascript", LanguageCSharp, LanguageJava, "java"}
RuntimeInputs == Runtimes \cup {None}
FilterInputs == {FilterAll, FilterCore, FilterVerified, "Other", None}

\* getTemplates reads the map and changes nothing: one call is observed
\* per TemplateData.
GetTemplates(language, runtimeArg, templateFilter) ==
    /\ pc = "idle"
    /\ templateData # Undefined
    /\ lastGet = Undefined
    /\ lastGet' = Some([language |-> language, runtime |-> runtimeArg,
                        templateFilter |-> templateFilter,
                        result |-> getTemplates(templateData[1], language, runtimeArg,
                                                templateFilter)])
    /\ UNCHANGED <<globalState, templateVersionSetting, templateData, pc, gsPassed,
                   dotnetInstalled, cliFeedJson, idx, templateVersion,
                   parsedTemplatesByRuntime, templatesMap, download, tempPath, attempts,
                   callbackError, downloaded, cf, install>>

----------------------------------------------------------------------------
(* The specification of template resolution *)

UserSettings == {"", "9.9.9"}

Init ==
    /\ globalState \in {EmptyGlobalState, LegacyGlobalState}
    /\ templateVersionSetting \in UserSettings
    /\ templateData = Undefined
    /\ pc = "idle"
    /\ gsPassed = FALSE
    /\ dotnetInstalled = TRUE
    /\ cliFeedJson = Undefined
    /\ idx = 1
    /\ templateVersion = None
    /\ parsedTemplatesByRuntime = Undefined
    /\ templatesMap = EmptyTemplatesMap
    /\ download = Undefined
    /\ tempPath = None
    /\ attempts = <<>>
    /\ callbackError = {}
    /\ downloaded = {}
    /\ lastGet = Undefined
    /\ cf = Undefined
    /\ install = Undefined

\* The releases a user may choose in the quick pick of versions.
PickInputs == {"2.0.0"}

\* The steps of a getTemplateData call that has started.
ResolveStep ==
    \/ \E a \in WarningAnswers, p \in PickInputs \cup {None} :
           /\ (p # None => cliFeedJson # Undefined /\ p \in cliFeedJson[1].releases)
           /\ TryGetTemplateVersionSetting(a, p)
    \/ MatchingCache
    \/ \E o \in DownloadOutcomes : CliFeedStart(o)
    \/ \E x \in BOOLEAN : CliFeedFinish(x)
    \/ MismatchCache
    \/ \E o \in DownloadOutcomes : BackupCliFeedStart(o)
    \/ \E x \in BOOLEAN : BackupCliFeedFinish(x)
    \/ Store
    \/ Return

FeedInputs == {Undefined} \cup {Some(x) : x \in Feeds}

Next ==
    \/ \E g \in BOOLEAN, f \in FeedInputs, d \in BOOLEAN : StartGetTemplateData(g, f, d)
    \/ ResolveStep

Spec == Init /\ [][Next]_vars

----------------------------------------------------------------------------
(* The specification of getTemplates: calls on the TemplateData of        *)
(* getTemplateData(undefined), the call the tests make                    *)

InitGet == Init /\ globalState = EmptyGlobalState

NextGet ==
    \/ \E f \in FeedInputs, d \in BOOLEAN : StartGetTemplateData(FALSE, f, d)
    \/ ResolveStep
    \/ /\ lastGet = Undefined
       /\ \E l \in LanguageInputs, r \in RuntimeInputs, f \in FilterInputs : GetTemplates(l, r, f)

SpecGet == InitGet /\ [][NextGet]_vars

----------------------------------------------------------------------------
(* Properties of template resolution *)

\* A getTemplateData call has returned and no other has started.
Returned == pc = "idle" /\ templateData # Undefined

\* The cache holds template data of a runtime that parses to templates.
CacheHasTemplates(rt) ==
    /\ globalState[getRuntimeKey(templatesKey, rt)] # Undefined
    /\ parseCache(globalState, rt).ok
    /\ parseCache(globalState, rt).value # <<>>

\* C1: once a call with a globalState has downloaded the templates of a
\* runtime, a later call with that globalState and no feed returns a
\* TemplateData whose getTemplates gives templates for that runtime.
C1_OfflineUsesCache ==
    (Returned /\ gsPassed /\ cliFeedJson = Undefined) =>
        \A rt \in downloaded : \A l \in LanguageInputs :
            getTemplates(templateData[1], l, rt, None).ok

SourceRank(source) ==
    CASE source = "matchingCache" -> 1
      [] source = "cliFeed" -> 2
      [] source = "mismatchCache" -> 3
      [] source = "backupCliFeed" -> 4

\* The callback of a runtime has ended in the current or last call.
Resolved(rt) ==
    \/ pc \in {"return", "idle"}
    \/ \E i \in 1..Len(ProjectRuntime) : ProjectRuntime[i] = rt /\ i < idx

AttemptsOf(rt) == SelectSeq(attempts, LAMBDA a : a.runtime = rt)

FirstYield(rt) ==
    LET as == AttemptsOf(rt)
        hits == {i \in 1..Len(as) : as[i].templates # Undefined}
    IN  IF hits = {} THEN Undefined
        ELSE as[CHOOSE i \in hits : \A k \in hits : i <= k].templates

\* C2: the sources of a runtime are attempted in the order matching cache,
\* feed, stale cache, backup feed; a source is attempted only if every
\* earlier one yielded nothing; what is stored for the runtime is what the
\* first yielding source gave.
C2_FallbackOrder ==
    \A rt \in Runtimes :
        LET as == AttemptsOf(rt)
        IN  /\ \A i, j \in 1..Len(as) :
                   i < j => /\ SourceRank(as[i].source) < SourceRank(as[j].source)
                            /\ as[i].templates = Undefined
            /\ Resolved(rt) => templatesMap[rt] = FirstYield(rt)

C2_Witness ==
    /\ Returned
    /\ LET as == AttemptsOf(ProjectRuntimeOne)
       IN  /\ Len(as) = 3
           /\ as[1].source = "cliFeed" /\ as[2].source = "mismatchCache"
           /\ as[3].source = "backupCliFeed" /\ as[3].templates # Undefined
           /\ templateData[1][ProjectRuntimeOne] = as[3].templates

\* C3: with cached templates of the requested version in globalState, the
\* cached templates are used and nothing is downloaded for the runtime.
C3_MatchingCacheUsed ==
    (gsPassed /\ CacheHasTemplates(currentRuntime)
              /\ cacheMatches(globalState, currentRuntime, templateVersion)) =>
        /\ pc # "cliFeedDownloaded"
        /\ pc = "cliFeed" => parsedTemplatesByRuntime = Some(parseCache(globalState, currentRuntime).value)

\* C4: no failure in the resolution of a runtime leaves getTemplateData, and
\* every runtime is resolved whatever happened to the other: when the call
\* returns with a feed at hand, each runtime has templates stored, or went
\* as far as the backup download, or ended with the error of its own callback.
C4_FailuresContained ==
    /\ pc # "thrown"
    /\ (Returned /\ cliFeedJson # Undefined) =>
           \A rt \in Runtimes :
               \/ templateData[1][rt] # Undefined
               \/ rt \in callbackError
               \/ \E i \in 1..Len(attempts) :
                      attempts[i].runtime = rt /\ attempts[i].source = "backupCliFeed"
    /\ Returned => \A rt \in Runtimes \ callbackError : templateData[1][rt] = FirstYield(rt)

C4_Witness ==
    /\ Returned
    /\ ProjectRuntimeOne \in callbackError
    /\ templateData[1][ProjectRuntimeOne] = Undefined
    /\ templateData[1][ProjectRuntimeBeta] # Undefined

----------------------------------------------------------------------------
(* Properties of getTemplates *)

\* The observed call, the runtime it is about and the templates stored for it.
GetRuntime == IF lastGet[1].runtime = None THEN ProjectRuntimeOne ELSE lastGet[1].runtime
GetStored == templateData[1][GetRuntime][1]
GetResult == lastGet[1].result.value

NoDuplicates(seq) == \A i, j \in 1..Len(seq) : seq[i] = seq[j] => i = j

VerifiedIds(rt) ==
    IF rt = ProjectRuntimeOne THEN Range(verifiedV1Templates) ELSE Range(verifiedV2Templates)

\* What the claim says a filter keeps.
FilterKeeps(t, rt, templateFilter) ==
    CASE templateFilter = FilterAll -> TRUE
      [] templateFilter = FilterCore -> CategoryCore \in t.categories
      [] OTHER -> t.id \in VerifiedIds(rt)

\* C5: for a language other than Java the result is exactly the stored
\* templates of the runtime that have the language, letter case ignored,
\* and pass the filter.
C5_NonJavaFilter ==
    (lastGet # Undefined /\ lastGet[1].result.ok /\ lastGet[1].language # LanguageJava) =>
        /\ Range(GetResult) =
               {t \in Range(GetStored) :
                    /\ toLowerCase(t.language) = toLowerCase(lastGet[1].language)
                    /\ FilterKeeps(t, GetRuntime, lastGet[1].templateFilter)}
        /\ NoDuplicates(GetResult)

C5_Witness ==
    /\ lastGet # Undefined /\ lastGet[1].result.ok
    /\ lastGet[1].language = "javascript"
    /\ lastGet[1].templateFilter = FilterCore
    /\ Len(GetResult) > 0 /\ Len(GetResult) < Len(GetStored)

\* The ids the claim expects from the Verified filter, per language.
JavaScriptVerifiedIds(rt) == {id \in VerifiedIds(rt) : Len(id) = 2 /\ id[2] = "JavaScript"}
CSharpVerifiedIds(rt) == {id \in VerifiedIds(rt) : includesCSharp(id)}
JavaVerifiedIds == {JS(n) : n \in Range(verifiedJavaTemplates)}

ResultIds == {GetResult[i].id : i \in 1..Len(GetResult)}

VerifiedCall(language) ==
    /\ lastGet # Undefined /\ lastGet[1].result.ok
    /\ lastGet[1].templateFilter = FilterVerified
    /\ lastGet[1].language = language

\* C6 as stated: the Verified filter gives one template per verified id,
\* 8 JavaScript (runtime one), 4 Java, 4 C# for each runtime.
C6_VerifiedCounts ==
    /\ VerifiedCall(LanguageJavaScript) =>
           /\ ResultIds = JavaScriptVerifiedIds(GetRuntime)
           /\ Len(GetResult) = IF GetRuntime = ProjectRuntimeOne THEN 8 ELSE 4
    /\ VerifiedCall(LanguageJava) => ResultIds = JavaVerifiedIds /\ Len(GetResult) = 4
    /\ VerifiedCall(LanguageCSharp) =>
           ResultIds = CSharpVerifiedIds(GetRuntime) /\ Len(GetResult) = 4

\* C6 amended: the C# templates are there when the .NET CLI was installed
\* during the download; without it no C# template is returned.
C6_VerifiedCountsDotnet ==
    /\ VerifiedCall(LanguageJavaScript) =>
           /\ ResultIds = JavaScriptVerifiedIds(GetRuntime)
           /\ Len(GetResult) = IF GetRuntime = ProjectRuntimeOne THEN 8 ELSE 4
    /\ VerifiedCall(LanguageJava) => ResultIds = JavaVerifiedIds /\ Len(GetResult) = 4
    /\ VerifiedCall(LanguageCSharp) =>
           IF dotnetInstalled
           THEN ResultIds = CSharpVerifiedIds(GetRuntime) /\ Len(GetResult) = 4
           ELSE GetResult = <<>>

C6_Witness ==
    /\ VerifiedCall(LanguageCSharp)
    /\ GetRuntime = ProjectRuntimeBeta
    /\ ~dotnetInstalled
    /\ GetResult = <<>>
    /\ templateData[1][ProjectRuntimeOne] # Undefined

\* C7: for Java the result is exactly the stored JavaScript templates whose
\* id up to its first '-' is a verified Java name, whatever the filter.
C7_JavaTemplates ==
    (lastGet # Undefined /\ lastGet[1].result.ok /\ lastGet[1].language = LanguageJava) =>
        /\ Range(GetResult) =
               {t \in Range(GetStored) :
                    /\ t.language = LanguageJavaScript
                    /\ Head(t.id) \in Range(verifiedJavaTemplates)}
        /\ NoDuplicates(GetResult)

C7_Witness ==
    /\ lastGet # Undefined /\ lastGet[1].result.ok
    /\ lastGet[1].language = LanguageJava
    /\ lastGet[1].templateFilter = FilterAll
    /\ GetRuntime = ProjectRuntimeOne
    /\ Len(GetResult) = 4

\* C8: getTemplates throws the retrieval error exactly when no list is held
\* for the runtime (runtime one when none is given), and so for every
\* runtime whose resolution gave nothing.
C8_ThrowsIffNoList ==
    lastGet # Undefined =>
        /\ (~lastGet[1].result.ok) <=> (templateData[1][GetRuntime] = Undefined)
        /\ ~lastGet[1].result.ok => lastGet[1].result.error = noInternetErrMsg
        /\ (FirstYield(GetRuntime) = Undefined \/ GetRuntime \in callbackError)
               => ~lastGet[1].result.ok

C8_Witness ==
    /\ lastGet # Undefined
    /\ lastGet[1].runtime = None
    /\ ~lastGet[1].result.ok
    /\ templateData[1][ProjectRuntimeOne] = Undefined
    /\ templateData[1][ProjectRuntimeBeta] # Undefined

----------------------------------------------------------------------------
(* createFunction *)

\* The most settings a caller passes in the model.
MaxSettings == 2

\* Keys and values of caseSensitiveFunctionSettings; None is undefined.
SettingKeys == {"AccessRights", "accessRights", "Path"}
SettingValues == {"Anonymous", None}

\* An object is the sequence of its <<key, value>> entries in the order of
\* Object.keys; its keys are distinct.
SettingsInputs ==
    UNION { {ps \in [1..n -> SettingKeys \X SettingValues] :
                 \A i, j \in 1..n : ps[i][1] = ps[j][1] => i = j} : n \in 0..MaxSettings }

\* What the user types when prompted for a setting.
PromptAnswer == "typed"

\* Mutant: the keys are stored as they were passed, not in lower case.
functionSettingsOfExact(pairs, k) ==
    LET hits == {i \in 1..Len(pairs) : pairs[i][1] = k}
    IN  IF hits = {} THEN None
        ELSE pairs[CHOOSE i \in hits : \A j \in hits : j <= i][2]

\* functionSettings[k] after the forEach over the keys: a later key with
\* the same lower-case form overwrites an earlier one.
functionSettingsOf(pairs, k) ==
    LET hits == {i \in 1..Len(pairs) : toLowerCase(pairs[i][1]) = k}
    IN  IF hits = {} THEN None
        ELSE pairs[CHOOSE i \in hits : \A j \in hits : j <= i][2]

\* Mutant: the filter of the project is used to look the template up.
lookupFilterOfProject(projectFilter) == projectFilter

\* The filter of the lookup by templateId.
lookupFilter(projectFilter) == FilterAll

\* The loop over template.userPromptedSettings: per setting its name, the
\* value put in userSettings and whether the user was prompted.
resolveSettings(template, pairs) ==
    [i \in 1..Len(template.userPromptedSettings) |->
        LET name == template.userPromptedSettings[i]
            passed == functionSettingsOf(pairs, toLowerCase(name))
            settingValue == IF passed # None THEN passed ELSE PromptAnswer
        IN  [name |-> name,
             value |-> IF settingValue # "" /\ settingValue # None THEN settingValue ELSE "",
             prompted |-> passed = None]]

CallOf(templateId, pairs, language, rt, projectFilter, pick, cancelAt) ==
    [templateId |-> templateId, settings |-> pairs, language |-> language, runtime |-> rt,
     projectFilter |-> projectFilter, pick |-> pick, cancelAt |-> cancelAt]

Outcome(call, outcome, template, settings, created) ==
    [call |-> call, outcome |-> outcome, template |-> template, userSettings |-> settings,
     fileCreated |-> created]

\* templateId is Undefined or Some(id); pick is the place in the quick pick
\* of the template the user chooses when no templateId is given; cancelAt
\* says at which prompt, if any, the user cancels.
createFunction(map, templateId, pairs, language, rt, projectFilter, pick, cancelAt) ==
    LET call == CallOf(templateId, pairs, language, rt, projectFilter, pick, cancelAt)
        failed(outcome) == Outcome(call, outcome, Undefined, <<>>, FALSE)
        listed == getTemplates(map, language, rt,
                               IF templateId = Undefined THEN projectFilter
                               ELSE lookupFilter(projectFilter))
        found == {i \in 1..Len(listed.value) : listed.value[i].id = templateId[1]}
        chosen == IF templateId = Undefined
                  THEN (IF pick \in 1..Len(listed.value) THEN Some(listed.value[pick])
                        ELSE Undefined)
                  ELSE (IF found = {} THEN Undefined
                        ELSE Some(listed.value[CHOOSE i \in found : \A j \in found : i <= j]))
        settings == resolveSettings(chosen[1], pairs)
    IN  IF cancelAt = "project" THEN failed("cancelled")
        ELSE IF ~listed.ok THEN failed("noTemplates")
        ELSE IF chosen = Undefined
             THEN failed(IF templateId = Undefined THEN "cancelled" ELSE "templateNotFound")
        ELSE IF cancelAt = "setting" /\ \E i \in 1..Len(settings) : settings[i].prompted
             THEN Outcome(call, "cancelled", chosen, <<>>, FALSE)
        ELSE Outcome(call, "created", chosen, settings, TRUE)

CreateFunction(templateId, pairs, language, rt, projectFilter, pick, cancelAt) ==
    /\ pc = "idle"
    /\ templateData # Undefined
    /\ cf = Undefined
    /\ cf' = Some(createFunction(templateData[1], templateId, pairs, language, rt,
                                 projectFilter, pick, cancelAt))
    /\ UNCHANGED <<globalState, templateVersionSetting, templateData, pc, gsPassed,
                   dotnetInstalled, cliFeedJson, idx, templateVersion,
                   parsedTemplatesByRuntime, templatesMap, download, tempPath, attempts,
                   callbackError, downloaded, lastGet, install>>

----------------------------------------------------------------------------
(* The specification of createFunction: calls on a TemplateData that       *)
(* getTemplateData built from the feed                                     *)

\* The templates a successful feed attempt gives for a release.
FeedTemplates(release, rt, dotnetOk) ==
    tryGetParsedTemplateDataFromCliFeed([release |-> release, outcome |-> "ok"], rt, dotnetOk,
                                        EmptyGlobalState, FALSE).value

TemplateDataInputs ==
    UNION { { [r \in Runtimes |-> IF r = ProjectRuntimeOne THEN one ELSE beta] :
                  one \in {Undefined, FeedTemplates("1.0.0", ProjectRuntimeOne, d)},
                  beta \in {Undefined, FeedTemplates("2.0.0", ProjectRuntimeBeta, d)} } :
            d \in BOOLEAN }

TemplateIdInputs ==
    { Undefined, Some(JS("HttpTrigger")), Some(JS("EventHubTrigger")),
      Some(<<"Azure.Function.CSharp.HttpTrigger.2.x">>), Some(JS("NoSuchTrigger")) }

\* Places in the quick pick of templates; 0 is a cancelled quick pick.
TemplatePicks == 0..(Len(V1ScriptTemplates) + Len(DotnetTemplatesOf("1.x")))

CancelInputs == {"never", "project", "setting"}

InitCreate ==
    /\ globalState = EmptyGlobalState
    /\ templateVersionSetting = ""
    /\ templateData \in {Some(m) : m \in TemplateDataInputs}
    /\ pc = "idle"
    /\ gsPassed = FALSE
    /\ dotnetInstalled = TRUE
    /\ cliFeedJson = Undefined
    /\ idx = 1
    /\ templateVersion = None
    /\ parsedTemplatesByRuntime = Undefined
    /\ templatesMap = EmptyTemplatesMap
    /\ download = Undefined
    /\ tempPath = None
    /\ attempts = <<>>
    /\ callbackError = {}
    /\ downloaded = {}
    /\ lastGet = Undefined
    /\ cf = Undefined
    /\ install = Undefined

NextCreate ==
    /\ cf = Undefined
    /\ \E t \in TemplateIdInputs, ps \in SettingsInputs,
          l \in {LanguageJavaScript, LanguageCSharp, LanguageJava}, r \in Runtimes,
          f \in {FilterAll, FilterVerified}, c \in CancelInputs :
           \E k \in IF t = Undefined THEN TemplatePicks ELSE {0} :
               CreateFunction(t, ps, l, r, f, k, c)

SpecCreate == InitCreate /\ [][NextCreate]_vars

----------------------------------------------------------------------------
(* Properties of createFunction *)

\* The places of the passed settings that match a name, letter case
\* ignored, with a defined value.
PassedFor(pairs, name) ==
    {j \in 1..Len(pairs) :
         toLowerCase(pairs[j][1]) = toLowerCase(name) /\ pairs[j][2] # None}

\* C9 as stated: a setting of the template that was passed with a defined value,
\* under a key equal to its name up to letter case, takes the passed value
\* and is not prompted for; the other settings are prompted for.
C9_PassedSettingsNotPrompted ==
    (cf # Undefined /\ cf[1].outcome = "created") =>
        \A i \in 1..Len(cf[1].userSettings) :
            LET s == cf[1].userSettings[i]
                passed == PassedFor(cf[1].call.settings, s.name)
            IN  IF passed # {}
                THEN ~s.prompted /\ \E j \in passed : s.value = cf[1].call.settings[j][2]
                ELSE s.prompted

\* The places of the passed settings whose key is the name up to letter case.
KeysFor(pairs, name) ==
    {j \in 1..Len(pairs) : toLowerCase(pairs[j][1]) = toLowerCase(name)}

\* C9 amended: the last passed key equal to the setting's name up to letter
\* case decides: with a defined value there, that value is used and the
\* user is not prompted; with no such key, or an undefined value there,
\* the user is prompted.
C9_LastMatchingKeyDecides ==
    (cf # Undefined /\ cf[1].outcome = "created") =>
        \A i \in 1..Len(cf[1].userSettings) :
            LET s == cf[1].userSettings[i]
                pairs == cf[1].call.settings
                keys == KeysFor(pairs, s.name)
                last == CHOOSE j \in keys : \A k \in keys : k <= j
            IN  /\ s.name = cf[1].template[1].userPromptedSettings[i]
                /\ IF keys # {} /\ pairs[last][2] # None
                   THEN ~s.prompted /\ s.value = pairs[last][2]
                   ELSE s.prompted /\ s.value = PromptAnswer

C9_Witness ==
    /\ cf # Undefined /\ cf[1].outcome = "created"
    /\ cf[1].call.templateId = Some(<<"Azure.Function.CSharp.HttpTrigger.2.x">>)
    /\ cf[1].call.settings = << <<"accessRights", "Anonymous">>, <<"Path", "Anonymous">> >>
    /\ cf[1].userSettings =
           <<[name |-> "AccessRights", value |-> "Anonymous", prompted |-> FALSE]>>

\* C10: with a templateId the template is looked up among the templates
\* that getTemplates gives for the filter All, whatever the project's
\* filter; when none has the id the call throws templateNotFound, prompts
\* for no setting and creates no file.
C10_LookupAmongAll ==
    (cf # Undefined /\ cf[1].call.templateId # Undefined /\ cf[1].call.cancelAt # "project") =>
        LET c == cf[1]
            all == getTemplates(templateData[1], c.call.language, c.call.runtime, FilterAll)
        IN  all.ok =>
                IF \E i \in 1..Len(all.value) : all.value[i].id = c.call.templateId[1]
                THEN /\ c.outcome # "templateNotFound"
                     /\ c.template # Undefined
                     /\ c.template[1].id = c.call.templateId[1]
                     /\ c.template[1] \in Range(all.value)
                ELSE /\ c.outcome = "templateNotFound"
                     /\ c.userSettings = <<>>
                     /\ ~c.fileCreated

C10_Witness ==
    /\ cf # Undefined
    /\ cf[1].outcome = "templateNotFound"
    /\ cf[1].call.templateId = Some(<<"Azure.Function.CSharp.HttpTrigger.2.x">>)
    /\ cf[1].call.language = LanguageCSharp
    /\ cf[1].call.runtime = ProjectRuntimeOne
    /\ cf[1].call.settings # <<>>
    /\ templateData[1][ProjectRuntimeOne] # Undefined


----------------------------------------------------------------------------
(* installFuncCoreTools *)

PlatformWindows == "win32"
Platforms == {PlatformWindows, "darwin", "linux"}

PackageManagerNpm == "npm"
PackageManagerBrew == "brew"
\* A value outside the enumeration reaches the default branch of the switch.
PackageManagers == {PackageManagerNpm, PackageManagerBrew, "apt"}

funcPackageName == "azure-functions-core-tools"
\* `${funcPackageName}@core`
funcPackageNameCore == "azure-functions-core-tools@core"
v1 == "v1 (.NET Framework)"
v2 == "v2 Preview (.NET Standard)"
learnMore == "Learn more"

npmInstallV1 == <<"npm", "install", "-g", funcPackageName>>
npmInstallV2 == <<"npm", "install", "-g", funcPackageNameCore, "--unsafe-perm", "true">>
brewTap == <<"brew", "tap", "azure/functions">>
brewInstall == <<"brew", "install", funcPackageName>>

\* The runtimeVersion arguments: None is an omitted argument.
RuntimeVersionInputs == {None, "", v1, v2, "v3"}

\* The number of times the user may open the 'Learn more' link in one call.
MaxLearnMore == 2

\* Mutant: the argument is kept on every platform.
runtimeVersionAsPassed(platform, runtimeVersion) == runtimeVersion

\* Lines 20-21: the argument is ignored everywhere but on Windows.
runtimeVersionOn(platform, runtimeVersion) ==
    IF platform # PlatformWindows THEN v2 ELSE runtimeVersion

\* !runtimeVersion
isFalsy(runtimeVersion) == runtimeVersion \in {None, ""}

\* Mutant: the install command follows the tap command whatever its outcome.
afterTapIgnoringError(ok) == "brewInstall"

\* Lines 49-50: the awaited tap command that fails ends the call with its error.
afterTap(ok) == IF ok THEN "brewInstall" ELSE "thrown"

\* cpUtils.executeCommand, awaited: the command is run, and its error is the
\* error of the call.
executeCommand(command, ok, toPc) ==
    /\ install' = Some([install[1] EXCEPT
                            !.commands = Append(@, [command |-> command, ok |-> ok]),
                            !.pc = toPc,
                            !.error = IF ok THEN @ ELSE "command"])
    /\ UNCHANGED <<globalState, templateVersionSetting, templateData, pc, gsPassed,
                   dotnetInstalled, cliFeedJson, idx, templateVersion,
                   parsedTemplatesByRuntime, templatesMap, download, tempPath, attempts,
                   callbackError, downloaded, lastGet, cf>>

setInstall(rec) ==
    /\ install' = Some(rec)
    /\ UNCHANGED <<globalState, templateVersionSetting, templateData, pc, gsPassed,
                   dotnetInstalled, cliFeedJson, idx, templateVersion,
                   parsedTemplatesByRuntime, templatesMap, download, tempPath, attempts,
                   callbackError, downloaded, lastGet, cf>>

\* Lines 15-22: the call and the choice of the runtime version.
InstallFuncCoreTools(platform, packageManager, runtimeVersion) ==
    /\ install = Undefined
    /\ LET rv == runtimeVersionOn(platform, runtimeVersion)
       IN  setInstall([ platform       |-> platform,
                        packageManager |-> packageManager,
                        passed         |-> runtimeVersion,
                        runtimeVersion |-> rv,
                        pc             |-> IF platform = PlatformWindows /\ isFalsy(rv)
                                           THEN "prompt" ELSE "show",
                        prompts        |-> 0,
                        learnMoreOpened |-> 0,
                        shown          |-> FALSE,
                        commands       |-> <<>>,
                        error          |-> None ])

\* Lines 25-31: the warning message; a dismissed message cancels the call.
PromptRuntimeVersion(answer) ==
    /\ install # Undefined
    /\ install[1].pc = "prompt"
    /\ answer = learnMore => install[1].learnMoreOpened < MaxLearnMore
    /\ setInstall(
         IF answer = None
         THEN [install[1] EXCEPT !.pc = "thrown", !.error = "cancelled", !.prompts = @ + 1]
         ELSE IF answer = learnMore
         THEN [install[1] EXCEPT !.runtimeVersion = learnMore, !.prompts = @ + 1,
                                 !.learnMoreOpened = @ + 1]
         ELSE [install[1] EXCEPT !.runtimeVersion = answer, !.prompts = @ + 1,
                                 !.pc = "show"])

\* Lines 34-35 and the branches that run no command (lines 45, 53).
ShowOutputChannel ==
    /\ install # Undefined
    /\ install[1].pc = "show"
    /\ LET i == install[1]
       IN  setInstall(
             IF i.packageManager = PackageManagerNpm
             THEN IF i.runtimeVersion \in {v1, v2}
                  THEN [i EXCEPT !.shown = TRUE, !.pc = "npmInstall"]
                  ELSE [i EXCEPT !.shown = TRUE, !.pc = "thrown", !.error = "invalidRuntime"]
             ELSE IF i.packageManager = PackageManagerBrew
             THEN [i EXCEPT !.shown = TRUE, !.pc = "brewTap"]
             ELSE [i EXCEPT !.shown = TRUE, !.pc = "thrown",
                            !.error = "invalidPackageManager"])

\* Lines 37-43.
NpmInstall(ok) ==
    /\ install # Undefined
    /\ install[1].pc = "npmInstall"
    /\ executeCommand(IF install[1].runtimeVersion = v1 THEN npmInstallV1 ELSE npmInstallV2,
                      ok, IF ok THEN "done" ELSE "thrown")

\* Line 49.
BrewTap(ok) ==
    /\ install # Undefined
    /\ install[1].pc = "brewTap"
    /\ executeCommand(brewTap, ok, afterTap(ok))

\* Line 50.
BrewInstall(ok) ==
    /\ install # Undefined
    /\ install[1].pc = "brewInstall"
    /\ executeCommand(brewInstall, ok, IF ok THEN "done" ELSE "thrown")

InitInstall == Init /\ globalState = EmptyGlobalState /\ templateVersionSetting = ""

NextInstall ==
    \/ \E p \in Platforms, m \in PackageManagers, r \in RuntimeVersionInputs :
           InstallFuncCoreTools(p, m, r)
    \/ \E a \in {None, v1, v2, learnMore} : PromptRuntimeVersion(a)
    \/ ShowOutputChannel
    \/ \E ok \in BOOLEAN : NpmInstall(ok)
    \/ \E ok \in BOOLEAN : BrewTap(ok)
    \/ \E ok \in BOOLEAN : BrewInstall(ok)

SpecInstall == InitInstall /\ [][NextInstall]_vars

----------------------------------------------------------------------------
(* Properties of installFuncCoreTools *)

InstallCommands == IF install = Undefined THEN <<>> ELSE
    [i \in 1..Len(install[1].commands) |-> install[1].commands[i].command]

InstalledBy(command) == \E i \in 1..Len(InstallCommands) : InstallCommands[i] = command

\* C11: the v1 command is run only on Windows; on every other platform the
\* runtime version is v2 whatever was passed; with npm the only command run is
\* 'npm install -g azure-functions-core-tools' when the version is v1 and
\* 'npm install -g azure-functions-core-tools@core --unsafe-perm true' when it
\* is v2, and no command is run for another version.
C11_V1OnlyOnWindows ==
    install # Undefined =>
        LET i == install[1]
            ended == i.pc \in {"done", "thrown"}
            npm == i.packageManager = PackageManagerNpm
        IN  /\ InstalledBy(npmInstallV1) => i.platform = PlatformWindows
            /\ i.platform # PlatformWindows => i.runtimeVersion = v2 /\ i.prompts = 0
            /\ (i.platform # PlatformWindows /\ npm /\ ended) =>
                   InstallCommands = <<npmInstallV2>>
            /\ (npm /\ ended /\ i.runtimeVersion = v1) => InstallCommands = <<npmInstallV1>>
            /\ (npm /\ ended /\ i.runtimeVersion = v2) => InstallCommands = <<npmInstallV2>>
            /\ (npm /\ i.runtimeVersion \notin {v1, v2}) => InstallCommands = <<>>

\* A call on Linux that was passed v1 has installed v2 with npm.
C11_Witness ==
    /\ install # Undefined
    /\ install[1].platform = "linux"
    /\ install[1].passed = v1
    /\ install[1].pc = "done"
    /\ InstallCommands = <<npmInstallV2>>

\* C12: with brew, 'brew install azure-functions-core-tools' is run only
\* after 'brew tap azure/functions' has been run and has completed without
\* error, and nothing else is run.
C12_TapBeforeInstall ==
    install # Undefined /\ install[1].packageManager = PackageManagerBrew =>
        LET cs == install[1].commands IN
        /\ Len(cs) <= 2
        /\ Len(cs) >= 1 => cs[1].command = brewTap
        /\ Len(cs) = 2 => cs[1].ok /\ cs[2].command = brewInstall
        /\ install[1].pc = "brewInstall" => Len(cs) = 1 /\ cs[1].ok
        /\ install[1].pc = "done" => Len(cs) = 2 /\ cs[2].ok
        /\ Len(cs) = 1 /\ ~cs[1].ok => install[1].pc = "thrown"

\* The tap failed and the call has ended without the install command.
C12_Witness ==
    /\ install # Undefined
    /\ install[1].packageManager = PackageManagerBrew
    /\ install[1].pc = "thrown"
    /\ Len(install[1].commands) = 1
    /\ ~install[1].commands[1].ok


----------------------------------------------------------------------------
(* Properties of the feed attempts: the temporary directory and the cache *)

\* A feed attempt has downloaded and is about to parse, verify and clean up.
Downloading == pc \in {"cliFeedDownloaded", "backupCliFeedDownloaded"}

\* The step ends a feed attempt.
FeedAttemptEnds == download # Undefined /\ download' = Undefined

\* C13: within a getTemplateData call a download is in progress only inside
\* a feed attempt of the runtime being resolved, whose files are then the ones
\* in the temporary directory; the loop moves to the next runtime, and the
\* call returns, only with no download in progress; the directory changes
\* only when a feed attempt starts or ends, and an attempt that ends without
\* an error of its finally block leaves no directory.
C13_OneDownloadAtATime ==
    /\ [](download # Undefined =>
             /\ Downloading
             /\ download[1].outcome # "typeError" => tempPath = currentRuntime)
    /\ [](pc \in {"idle", "version", "return"} => download = Undefined)
    /\ [][ /\ idx' # idx => download' = Undefined
           /\ tempPath' # tempPath => (FeedAttemptEnds \/ download' # Undefined)
           /\ (FeedAttemptEnds /\ callbackError' = callbackError) => tempPath' = None
         ]_vars

\* The second runtime downloads into the directory after the first runtime
\* downloaded into it and removed it.
C13_Witness ==
    /\ idx = 2
    /\ Downloading
    /\ download # Undefined
    /\ tempPath = ProjectRuntimeBeta
    /\ callbackError = {}
    /\ \E i \in 1..Len(attempts) :
           attempts[i].runtime = ProjectRuntimeOne /\ attempts[i].source = "cliFeed"

\* The feed attempt in progress fails: the download, the extraction or the
\* reading failed, the feed does not list the version, or the release lacks
\* a verified template.
AttemptFails ==
    LET templates == ReleaseScriptTemplates(download[1].release)
                     \o ReleaseDotnetTemplates(download[1].release)
    IN  \/ download[1].outcome # "ok"
        \/ \E id \in Range(idsToVerify(currentRuntime, dotnetInstalled)) :
               \A i \in 1..Len(templates) : templates[i].id # id

\* C14: a feed attempt that fails yields no templates and leaves globalState
\* as it was; globalState changes only in the step that ends a feed attempt
\* that did not fail, of a call that was given a globalState.
C14_FailedAttemptKeepsCache ==
    [][ /\ (FeedAttemptEnds /\ AttemptFails) =>
               /\ globalState' = globalState
               /\ attempts' # attempts
               /\ attempts'[Len(attempts')].templates = Undefined
               /\ parsedTemplatesByRuntime' = Undefined
        /\ globalState' # globalState => (FeedAttemptEnds /\ ~AttemptFails /\ gsPassed)
      ]_vars

\* A call given a globalState that holds a cache has a feed attempt that
\* fails on a release lacking a verified template.
C14_Witness ==
    /\ gsPassed
    /\ Downloading
    /\ download # Undefined
    /\ download[1].outcome = "ok"
    /\ download[1].release = BrokenRelease
    /\ globalState[versionKey(ProjectRuntimeBeta)] # Undefined

\* The entries cached for a runtime, the version apart.
DataKeys(rt) == {getRuntimeKey(b, rt) : b \in BaseKeys}

\* The document cached under a base key when files of a version were cached.
CachedFrom(gs, rt, version) ==
    /\ gs[getRuntimeKey(templatesKey, rt)] = Some(Raw(version, "templates.json"))
    /\ gs[getRuntimeKey(configKey, rt)] = Some(Raw(version, "bindings.json"))
    /\ gs[getRuntimeKey(resourcesKey, rt)] = Some(Raw(version, "Resources.json"))
    /\ gs[getRuntimeKey(dotnetTemplatesKey, rt)]
           \in {Some(RawDotnet(version, TRUE)), Some(RawDotnet(version, FALSE))}

\* C15: the version cached for a runtime is the release of every document
\* cached for that runtime, and of all four once a call has written that
\* runtime's cache; a step changes the cache entries of the runtime being
\* resolved only.
C15_CachedVersionIsSource ==
    /\ [](\A rt \in Runtimes :
             /\ globalState[versionKey(rt)] # Undefined =>
                    \A k \in DataKeys(rt) :
                        globalState[k] # Undefined =>
                            globalState[k][1].release = globalState[versionKey(rt)][1]
             /\ rt \in downloaded =>
                    /\ globalState[versionKey(rt)] # Undefined
                    /\ CachedFrom(globalState, rt, globalState[versionKey(rt)][1]))
    /\ [][ \A rt \in Runtimes :
               rt # currentRuntime =>
                   \A k \in DataKeys(rt) \cup {versionKey(rt)} :
                       globalState'[k] = globalState[k]
         ]_vars

\* Both runtimes are cached, runtime beta from the backup version after
\* runtime one was cached from the latest release.
C15_Witness ==
    /\ Returned
    /\ downloaded = Runtimes
    /\ globalState[versionKey(ProjectRuntimeOne)] = Some("1.0.1")
    /\ globalState[versionKey(ProjectRuntimeBeta)] = Some(betaReleaseVersion)
    /\ CachedFrom(globalState, ProjectRuntimeBeta, betaReleaseVersion)
    /\ \E i \in 1..Len(attempts) :
           /\ attempts[i].runtime = ProjectRuntimeBeta
           /\ attempts[i].source = "backupCliFeed"
           /\ attempts[i].templates # Undefined

====
